---- MODULE Spec2Model ----
(***************************************************************************)
(* A model of the streaming JSON parser of streamjson/main.py:             *)
(* StreamJsonStringParser (the escape decoder) and StreamJsonParser (the   *)
(* per-character state machine, its stack and its event queue).            *)
(*                                                                         *)
(* A Python str is a sequence of characters.  A character is a one-letter  *)
(* TLA+ string; a character outside printable ASCII that TLA+ cannot       *)
(* write is named by its code point, "U+0008", "U+D83D", "U+1F600".        *)
(***************************************************************************)
EXTENDS Integers, Sequences, FiniteSets, TLC

(***************************************************************************)
(* Characters and strings                                                  *)
(***************************************************************************)

\* The characters of a TLA+ string literal, as a Python str.
Chars(s) == [i \in 1..Len(s) |-> SubSeq(s, i, i)]

\* Printable ASCII in code point order: 32..95, then 97..126 (a TLA+ string
\* cannot hold the grave accent, 96, which is named by its code point).
ASCII == Chars(" !\"#$%&'()*+,-./0123456789:;<=>?@ABCDEFGHIJKLMNOPQRSTUVWXYZ[\\]^_abcdefghijklmnopqrstuvwxyz{|}~")

HEXDIGITS == Chars("0123456789abcdef")

Digits == {"0", "1", "2", "3", "4", "5", "6", "7", "8", "9"}

Lower == {ASCII[i] : i \in 65..90}

Upper == {ASCII[i] : i \in 34..59}

\* [a-fA-F0-9]
IsHex(c) == c \in Digits \cup {"a", "b", "c", "d", "e", "f", "A", "B", "C", "D", "E", "F"}

IndexOf(seq, c) == CHOOSE i \in 1..Len(seq) : seq[i] = c

HexDigitValue(c) ==
    IF c \in Digits \cup {"a", "b", "c", "d", "e", "f"}
    THEN IndexOf(HEXDIGITS, c) - 1
    ELSE IndexOf(Chars("ABCDEF"), c) + 9

RECURSIVE HexValue(_)
\* int(s, 16) for a str of hex digits
HexValue(s) ==
    IF s = <<>> THEN 0
    ELSE 16 * HexValue(SubSeq(s, 1, Len(s) - 1)) + HexDigitValue(s[Len(s)])

RECURSIVE HexName(_, _)
\* n in hexadecimal, upper case, at least w digits, as one TLA+ string
HexName(n, w) ==
    IF n = 0 /\ w <= 0 THEN ""
    ELSE HexName(n \div 16, w - 1) \o Chars("0123456789ABCDEF")[(n % 16) + 1]

\* chr(n)
Chr(n) ==
    IF n >= 32 /\ n <= 95 THEN ASCII[n - 31]
    ELSE IF n >= 97 /\ n <= 126 THEN ASCII[n - 32]
    ELSE IF n = 9 THEN "\t"
    ELSE IF n = 10 THEN "\n"
    ELSE IF n = 12 THEN "\f"
    ELSE IF n = 13 THEN "\r"
    ELSE "U+" \o HexName(n, 4)

\* ord(c)
Ord(c) ==
    IF Len(c) = 1 /\ \E i \in 1..Len(ASCII) : ASCII[i] = c
    THEN IF IndexOf(ASCII, c) <= 64 THEN IndexOf(ASCII, c) + 31 ELSE IndexOf(ASCII, c) + 32
    ELSE IF c = "\t" THEN 9
    ELSE IF c = "\n" THEN 10
    ELSE IF c = "\f" THEN 12
    ELSE IF c = "\r" THEN 13
    ELSE HexValue(Chars(SubSeq(c, 3, Len(c))))

RECURSIVE IntToStr(_)
\* str(n) for n >= 0
IntToStr(n) ==
    IF n < 10 THEN <<Chr(48 + n)>>
    ELSE IntToStr(n \div 10) \o <<Chr(48 + (n % 10))>>

RECURSIVE StrToInt(_)
\* int(s) for a str of decimal digits
StrToInt(s) ==
    IF s = <<>> THEN 0
    ELSE 10 * StrToInt(SubSeq(s, 1, Len(s) - 1)) + (Ord(s[Len(s)]) - 48)

RECURSIVE Join(_, _)
\* sep.join(parts)
Join(parts, sep) ==
    IF parts = <<>> THEN <<>>
    ELSE IF Len(parts) = 1 THEN parts[1]
    ELSE parts[1] \o sep \o Join(Tail(parts), sep)

(***************************************************************************)
(* Python values: a str, an int, a float, a bool or None, tagged by type   *)
(***************************************************************************)

PyStr(s) == [t |-> "str", v |-> s]

PyInt(n) == [t |-> "int", v |-> n]

PyBool(b) == [t |-> "bool", v |-> b]

PyNone == [t |-> "NoneType", v |-> 0]

\* The float mant * 10^exp that json.loads makes of <mant>e<exp>.
PyFloat(mant, exp) == [t |-> "float", v |-> <<mant, exp>>]

\* isinstance(x, str), isinstance(x, int) for the values kept on the stack
IsStr(x) == x.t = "str"

IsInt(x) == x.t = "int"

\* x == s for a str literal s: values of different types are unequal
EqStr(x, s) == IsStr(x) /\ x.v = s

(***************************************************************************)
(* Module level: PAIRS, ESCAPED, is_atomic_value_char, is_whitespace       *)
(***************************************************************************)

PAIRS == [c \in {"}", "]"} |-> IF c = "}" THEN <<"{">> ELSE <<"[">>]

\* s[from : from + n] exists and is all hex digits
AllHex(s, from, n) ==
    /\ Len(s) >= from + n - 1
    /\ \A i \in from..(from + n - 1) : IsHex(s[i])

\* len(ESCAPED.match(s).group(0)), or 0 when ESCAPED does not match s
ESCAPED_match(s) ==
    IF Len(s) < 2 \/ s[1] # "\\" THEN 0
    ELSE IF s[2] \in {"n", "t", "r", "\\", "\""} THEN 2
    ELSE IF s[2] = "x" /\ AllHex(s, 3, 2) THEN 4
    ELSE IF s[2] = "u" /\ AllHex(s, 3, 4) THEN 6
    ELSE IF s[2] = "U" /\ AllHex(s, 3, 8) THEN 10
    ELSE 0

is_atomic_value_char(c) == c \in Digits \cup {"t", "r", "u", "e", "f", "a", "l", "s", "n"}

is_whitespace(c) == c \in {" ", "\n", "\t", "\r"}

(***************************************************************************)
(* Library functions the parser calls                                      *)
(***************************************************************************)

\* codecs.decode(s, "unicode_escape") for a str s that ESCAPED matched whole:
\* [exc, c].  \UHHHHHHHH above 0x10FFFF raises UnicodeDecodeError.
unicode_escape_decode(s) ==
    IF s[2] = "n" THEN [exc |-> "None", c |-> "\n"]
    ELSE IF s[2] = "t" THEN [exc |-> "None", c |-> "\t"]
    ELSE IF s[2] = "r" THEN [exc |-> "None", c |-> "\r"]
    ELSE IF s[2] \in {"\\", "\""} THEN [exc |-> "None", c |-> s[2]]
    ELSE IF s[2] = "U" /\ ( \/ HexValue(SubSeq(s, 3, 4)) > 0
                            \/ HexValue(SubSeq(s, 5, 10)) > 1114111 )
    THEN [exc |-> "UnicodeDecodeError", c |-> ""]
    ELSE [exc |-> "None", c |-> Chr(HexValue(SubSeq(s, 3, Len(s))))]

\* json.decoder.BACKSLASH
BACKSLASH(esc) ==
    IF esc = "b" THEN Chr(8)
    ELSE IF esc = "f" THEN "\f"
    ELSE IF esc = "n" THEN "\n"
    ELSE IF esc = "r" THEN "\r"
    ELSE IF esc = "t" THEN "\t"
    ELSE esc

RECURSIVE scanstring(_, _, _)
\* json.decoder.scanstring(s, end, strict=True), end being 0-based there and
\* i = end + 1 here: [ok, value, end], end the place after the closing quote.
scanstring(s, i, acc) ==
    LET Err == [ok |-> FALSE, value |-> <<>>, end |-> i] IN
    IF i > Len(s) THEN Err
    ELSE IF s[i] = "\"" THEN [ok |-> TRUE, value |-> acc, end |-> i + 1]
    ELSE IF s[i] # "\\"
    THEN IF Ord(s[i]) < 32 THEN Err ELSE scanstring(s, i + 1, Append(acc, s[i]))
    ELSE IF i + 1 > Len(s) THEN Err
    ELSE IF s[i + 1] # "u"
    THEN IF s[i + 1] \in {"\"", "\\", "/", "b", "f", "n", "r", "t"}
         THEN scanstring(s, i + 2, Append(acc, BACKSLASH(s[i + 1])))
         ELSE Err
    ELSE IF ~AllHex(s, i + 2, 4) THEN Err
    ELSE LET uni == HexValue(SubSeq(s, i + 2, i + 5))
             pair == /\ uni >= 55296 /\ uni <= 56319
                     /\ Len(s) >= i + 7
                     /\ s[i + 6] = "\\" /\ s[i + 7] = "u"
         IN  IF ~pair THEN scanstring(s, i + 6, Append(acc, Chr(uni)))
             ELSE IF ~AllHex(s, i + 8, 4) THEN Err
             ELSE LET uni2 == HexValue(SubSeq(s, i + 8, i + 11)) IN
                  IF uni2 >= 56320 /\ uni2 <= 57343
                  THEN scanstring(s, i + 12,
                           Append(acc, Chr(65536 + (uni - 55296) * 1024 + (uni2 - 56320))))
                  ELSE scanstring(s, i + 6, Append(acc, Chr(uni)))

\* The JSON number grammar over the characters a payload can hold:
\* 0 | [1-9][0-9]*, then optionally e[0-9]+ .
IsJsonInt(s) ==
    /\ s # <<>>
    /\ \A i \in 1..Len(s) : s[i] \in Digits
    /\ (Len(s) > 1 => s[1] # "0")

\* json.loads(s) for the payloads the parser builds: a str starting with a
\* quote, or a str of atomic-value characters.  [exc, value].
json_loads(s) ==
    LET Err == [exc |-> "JSONDecodeError", value |-> PyNone]
        Ok(v) == [exc |-> "None", value |-> v]
        epos == {i \in 1..Len(s) : s[i] = "e"}
    IN
    IF s = <<>> THEN Err
    ELSE IF s[1] = "\""
    THEN LET r == scanstring(s, 2, <<>>) IN
         IF r.ok /\ \A i \in r.end..Len(s) : is_whitespace(s[i])
         THEN Ok(PyStr(r.value)) ELSE Err
    ELSE IF s = Chars("true") THEN Ok(PyBool(TRUE))
    ELSE IF s = Chars("false") THEN Ok(PyBool(FALSE))
    ELSE IF s = Chars("null") THEN Ok(PyNone)
    ELSE IF IsJsonInt(s) THEN Ok(PyInt(StrToInt(s)))
    ELSE IF /\ Cardinality(epos) = 1
            /\ \E i \in epos : /\ IsJsonInt(SubSeq(s, 1, i - 1))
                               /\ i < Len(s)
                               /\ \A j \in (i + 1)..Len(s) : s[j] \in Digits
    THEN LET i == CHOOSE i \in epos : TRUE IN
         Ok(PyFloat(StrToInt(SubSeq(s, 1, i - 1)), StrToInt(SubSeq(s, i + 1, Len(s)))))
    ELSE Err

\* "\\u{0:04x}".format(n)
LowerHex4(n) ==
    <<"\\", "u", HEXDIGITS[((n \div 4096) % 16) + 1], HEXDIGITS[((n \div 256) % 16) + 1],
      HEXDIGITS[((n \div 16) % 16) + 1], HEXDIGITS[(n % 16) + 1]>>

\* json.encoder's replacement of one character (ensure_ascii=True)
json_dumps_char(c) ==
    LET n == Ord(c) IN
    IF c = "\"" THEN <<"\\", "\"">>
    ELSE IF c = "\\" THEN <<"\\", "\\">>
    ELSE IF n >= 32 /\ n <= 126 THEN <<c>>
    ELSE IF n = 10 THEN <<"\\", "n">>
    ELSE IF n = 13 THEN <<"\\", "r">>
    ELSE IF n = 9 THEN <<"\\", "t">>
    ELSE IF n = 12 THEN <<"\\", "f">>
    ELSE IF n = 8 THEN <<"\\", "b">>
    ELSE IF n < 65536 THEN LowerHex4(n)
    ELSE LowerHex4(55296 + (((n - 65536) \div 1024) % 1024))
             \o LowerHex4(56320 + ((n - 65536) % 1024))

RECURSIVE json_dumps_body(_)
json_dumps_body(s) ==
    IF s = <<>> THEN <<>> ELSE json_dumps_char(s[1]) \o json_dumps_body(Tail(s))

\* json.dumps(s) for a str s
json_dumps(s) == <<"\"">> \o json_dumps_body(s) \o <<"\"">>

\* re.match("^[0-9a-zA-Z-_]", key) is not None
re_match_key(key) ==
    /\ key # <<>>
    /\ key[1] \in Digits \cup Lower \cup Upper \cup {"-", "_"}

(***************************************************************************)
(* ParserState, Value, ValuePiece                                          *)
(***************************************************************************)

OUTSIDE == "outside"

KEY == "key"

ATOMIC_VALUE == "atomic-value"

STRING_VALUE == "string-value"

INVALID == "invalid"

ParserState == {OUTSIDE, KEY, ATOMIC_VALUE, STRING_VALUE, INVALID}

\* char is a str of length one
ValuePiece(index_key, char) ==
    [type |-> "ValuePiece", index_key |-> index_key, char |-> char]

Value(index_key, value) ==
    [type |-> "Value", index_key |-> index_key, value |-> value]

(***************************************************************************)
(* StreamJsonStringParser                                                  *)
(***************************************************************************)

\* payload_string_parser is None
NoStringParser == [is_none |-> TRUE, remains |-> <<>>]

\* StreamJsonStringParser()
StreamJsonStringParser == [is_none |-> FALSE, remains |-> <<>>]

\* StreamJsonStringParser.feed_char
string_parser_feed_char(sp, c) == [sp EXCEPT !.remains = Append(@, c)]

\* StreamJsonStringParser.get_escaped_char on self.remains:
\* [exc, ret, remains], ret the str or bool returned.
get_escaped_char(remains) ==
    LET R(e, ret, rem) == [exc |-> e, ret |-> ret, remains |-> rem]
        length == ESCAPED_match(remains)
        d == unicode_escape_decode(SubSeq(remains, 1, length))
    IN
    IF remains = <<>> THEN R("None", PyBool(FALSE), remains)
    ELSE IF remains[1] = "\"" THEN R("None", PyBool(TRUE), remains)
    ELSE IF remains[1] # "\\" THEN R("None", PyStr(<<remains[1]>>), Tail(remains))
    ELSE IF length > 0
    THEN IF d.exc # "None" THEN R(d.exc, PyBool(FALSE), remains)
         ELSE R("None", PyStr(<<d.c>>), SubSeq(remains, length + 1, Len(remains)))
    ELSE IF Len(remains) >= 2 /\ remains[2] \notin {"x", "u", "U", "\\", "\""}
    THEN R("None", PyStr(<<remains[2]>>), SubSeq(remains, 3, Len(remains)))
    ELSE R("None", PyBool(FALSE), remains)

(***************************************************************************)
(* StreamJsonParser.  A parser is the record of its fields; exc is the     *)
(* exception the call being evaluated raised, "None" when it returned.     *)
(***************************************************************************)

\* StreamJsonParser.__init__
NewParser ==
    [state |-> OUTSIDE, stack |-> <<>>, toyield |-> <<>>, payload |-> <<>>,
     payload_string_parser |-> NoStringParser, started |-> FALSE, exc |-> "None"]

Last(s) == s[Len(s)]

Front(s) == SubSeq(s, 1, Len(s) - 1)

Raise(p, e) == [p EXCEPT !.exc = e]

is_current_data_finished(p) == p.started /\ p.stack = <<>>

RECURSIVE index_key_loop(_, _)
\* The while loop of calculate_current_index_key: [exc, result]
index_key_loop(current, result) ==
    IF current = <<>> THEN [exc |-> "None", result |-> result]
    ELSE LET e == Head(current)
             rest == Tail(current)
         IN
         IF EqStr(e, <<"[">>)
         THEN IF rest = <<>> THEN [exc |-> "IndexError", result |-> result]
              ELSE IF ~IsInt(Head(rest)) THEN [exc |-> "AssertionError", result |-> result]
              ELSE index_key_loop(Tail(rest), Append(result, IntToStr(Head(rest).v)))
         ELSE IF EqStr(e, <<"{">>)
         THEN IF rest = <<>> THEN [exc |-> "IndexError", result |-> result]
              ELSE IF ~IsStr(Head(rest)) THEN [exc |-> "AssertionError", result |-> result]
              ELSE index_key_loop(Tail(rest),
                       Append(result, IF re_match_key(Head(rest).v)
                                      THEN Head(rest).v
                                      ELSE json_dumps(Head(rest).v)))
         ELSE index_key_loop(rest, result)

\* calculate_current_index_key: [exc, key]
calculate_current_index_key(stack) ==
    LET r == index_key_loop(stack, <<>>) IN
    [exc |-> r.exc, key |-> Join(r.result, <<".">>)]

\* _handle_brackets without line 139: an unmatched closing bracket raises and
\* the state is left as it was
_handle_brackets_keeps_state(p, c) ==
    IF c \in {"{", "["}
    THEN [p EXCEPT !.stack = Append(@, PyStr(<<c>>))]
    ELSE IF p.stack = <<>>
    THEN Raise(p, "RuntimeError")
    ELSE LET pair == Last(p.stack)
             popped == Front(p.stack)
         IN
         IF ~EqStr(pair, PAIRS[c])
         THEN Raise([p EXCEPT !.stack = popped, !.state = INVALID], "RuntimeError")
         ELSE IF popped # <<>>
         THEN IF EqStr(Last(popped), <<"{">>) \/ EqStr(Last(popped), <<"[">>)
              THEN Raise([p EXCEPT !.stack = Front(popped)], "AssertionError")
              ELSE [p EXCEPT !.stack = Front(popped)]
         ELSE [p EXCEPT !.stack = popped]

_handle_brackets(p, c) ==
    IF c \in {"{", "["}
    THEN [p EXCEPT !.stack = Append(@, PyStr(<<c>>))]
    ELSE IF p.stack = <<>>
    THEN Raise([p EXCEPT !.state = INVALID], "RuntimeError")
    ELSE LET pair == Last(p.stack)
             popped == Front(p.stack)
         IN
         IF ~EqStr(pair, PAIRS[c])
         THEN Raise([p EXCEPT !.stack = popped, !.state = INVALID], "RuntimeError")
         ELSE IF popped # <<>>
         THEN IF EqStr(Last(popped), <<"{">>) \/ EqStr(Last(popped), <<"[">>)
              THEN Raise([p EXCEPT !.stack = Front(popped)], "AssertionError")
              ELSE [p EXCEPT !.stack = Front(popped)]
         ELSE [p EXCEPT !.stack = popped]

_handle_inside_object_value(p, c) ==
    IF c = "\""
    THEN [p EXCEPT !.payload = <<"\"">>, !.state = STRING_VALUE]
    ELSE IF is_atomic_value_char(c)
    THEN [p EXCEPT !.payload = Append(@, c), !.state = ATOMIC_VALUE]
    ELSE Raise([p EXCEPT !.state = INVALID], "RuntimeError")

feed_char_outside(p, c) ==
    LET current_top == IF p.stack # <<>> THEN Last(p.stack) ELSE PyNone
        q == [p EXCEPT !.started = TRUE]
        is_inside_object ==
            /\ Len(p.stack) >= 2
            /\ EqStr(p.stack[Len(p.stack) - 1], <<"{">>)
            /\ IsStr(current_top)
    IN
    IF c \in {"{", "}", "[", "]"} THEN _handle_brackets(p, c)
    ELSE IF is_whitespace(c) THEN p
    ELSE IF c = "," /\ (EqStr(current_top, <<"{">>) \/ EqStr(current_top, <<"[">>)) THEN q
    ELSE IF /\ c = ":"
            /\ IsStr(current_top)
            /\ Len(p.stack) >= 2
            /\ EqStr(p.stack[Len(p.stack) - 1], <<"{">>)
    THEN q
    ELSE IF EqStr(current_top, <<"{">>) /\ c = "\""
    THEN [q EXCEPT !.payload = Append(@, c), !.state = KEY]
    ELSE IF EqStr(current_top, <<"[">>)
    THEN IF c = "\""
         THEN [q EXCEPT !.stack = Append(@, PyInt(0)), !.payload = <<"\"">>,
                        !.state = STRING_VALUE]
         ELSE IF is_atomic_value_char(c)
         THEN [q EXCEPT !.stack = Append(@, PyInt(0)), !.payload = <<c>>,
                        !.state = ATOMIC_VALUE]
         ELSE Raise([q EXCEPT !.state = INVALID], "RuntimeError")
    ELSE IF is_inside_object THEN _handle_inside_object_value(q, c)
    ELSE Raise([q EXCEPT !.state = INVALID], "RuntimeError")

\* len(payload) - len(payload.rstrip("\\"))
RECURSIVE backslash_count(_)
backslash_count(payload) ==
    IF payload # <<>> /\ Last(payload) = "\\" THEN 1 + backslash_count(Front(payload)) ELSE 0

\* feed_char_key without line 234: the payload is kept when the key ends
feed_char_key_keeps_payload(p, c) ==
    LET loaded == json_loads(Append(p.payload, c)) IN
    IF ~(p.payload # <<>> /\ p.payload[1] = "\"") THEN Raise(p, "AssertionError")
    ELSE IF c = "\"" /\ backslash_count(p.payload) % 2 = 0
    THEN IF loaded.exc # "None" THEN Raise(p, loaded.exc)
         ELSE [p EXCEPT !.stack = Append(@, loaded.value), !.state = OUTSIDE]
    ELSE [p EXCEPT !.payload = Append(@, c)]

feed_char_key(p, c) ==
    LET loaded == json_loads(Append(p.payload, c)) IN
    IF ~(p.payload # <<>> /\ p.payload[1] = "\"") THEN Raise(p, "AssertionError")
    ELSE IF c = "\"" /\ backslash_count(p.payload) % 2 = 0
    THEN IF loaded.exc # "None" THEN Raise(p, loaded.exc)
         ELSE [p EXCEPT !.stack = Append(@, loaded.value), !.payload = <<>>,
                        !.state = OUTSIDE]
    ELSE [p EXCEPT !.payload = Append(@, c)]

RECURSIVE feed_char(_, _)

feed_char_atomic_value(p, c) ==
    LET index_key == calculate_current_index_key(p.stack)
        loaded == json_loads(p.payload)
    IN
    IF index_key.exc # "None" THEN Raise(p, index_key.exc)
    ELSE IF ~is_atomic_value_char(c)
    THEN IF loaded.exc # "None" THEN Raise(p, loaded.exc)
         ELSE feed_char([p EXCEPT !.payload = <<>>,
                                  !.toyield = Append(@, Value(index_key.key, loaded.value)),
                                  !.stack = Front(@),
                                  !.state = OUTSIDE], c)
    ELSE [p EXCEPT !.payload = Append(@, c)]

\* feed_char_string_value with the ValuePiece built at line 267 from an empty
\* path instead of index_key
feed_char_string_value_pathless(p, c) ==
    LET sp == IF p.payload_string_parser.is_none
              THEN StreamJsonStringParser ELSE p.payload_string_parser
        fed == string_parser_feed_char(sp, c)
        q == [p EXCEPT !.payload_string_parser = fed, !.payload = Append(@, c)]
        index_key == calculate_current_index_key(q.stack)
        parsed == get_escaped_char(fed.remains)
        r == [q EXCEPT !.payload_string_parser.remains = parsed.remains]
        loaded == json_loads(r.payload)
    IN
    IF index_key.exc # "None" THEN Raise(q, index_key.exc)
    ELSE IF parsed.exc # "None" THEN Raise(q, parsed.exc)
    ELSE IF IsStr(parsed.ret)
    THEN [r EXCEPT !.toyield = Append(@, ValuePiece(<<>>, parsed.ret.v))]
    ELSE IF parsed.ret.v
    THEN IF loaded.exc # "None" THEN Raise(r, loaded.exc)
         ELSE [r EXCEPT !.toyield = Append(@, Value(index_key.key, loaded.value)),
                        !.stack = Front(@),
                        !.state = OUTSIDE,
                        !.payload_string_parser = NoStringParser,
                        !.payload = <<>>]
    ELSE r

feed_char_string_value(p, c) ==
    LET sp == IF p.payload_string_parser.is_none
              THEN StreamJsonStringParser ELSE p.payload_string_parser
        fed == string_parser_feed_char(sp, c)
        q == [p EXCEPT !.payload_string_parser = fed, !.payload = Append(@, c)]
        index_key == calculate_current_index_key(q.stack)
        parsed == get_escaped_char(fed.remains)
        r == [q EXCEPT !.payload_string_parser.remains = parsed.remains]
        loaded == json_loads(r.payload)
    IN
    IF index_key.exc # "None" THEN Raise(q, index_key.exc)
    ELSE IF parsed.exc # "None" THEN Raise(q, parsed.exc)
    ELSE IF IsStr(parsed.ret)
    THEN [r EXCEPT !.toyield = Append(@, ValuePiece(index_key.key, parsed.ret.v))]
    ELSE IF parsed.ret.v
    THEN IF loaded.exc # "None" THEN Raise(r, loaded.exc)
         ELSE [r EXCEPT !.toyield = Append(@, Value(index_key.key, loaded.value)),
                        !.stack = Front(@),
                        !.state = OUTSIDE,
                        !.payload_string_parser = NoStringParser,
                        !.payload = <<>>]
    ELSE r

\* feed_char on a parser whose previous call has ended (exc is "None")
feed_char(p, c) ==
    IF p.state = OUTSIDE THEN feed_char_outside(p, c)
    ELSE IF p.state = KEY THEN feed_char_key(p, c)
    ELSE IF p.state = STRING_VALUE THEN feed_char_string_value(p, c)
    ELSE IF p.state = ATOMIC_VALUE THEN feed_char_atomic_value(p, c)
    ELSE Raise(p, "RuntimeError")

RECURSIVE feed_string(_, _)
\* The for loop of feed_string: the first exception ends it
feed_string(p, s) ==
    IF s = <<>> THEN p
    ELSE LET q == feed_char(p, Head(s)) IN
         IF q.exc # "None" THEN q ELSE feed_string(q, Tail(s))

\* __next__ with pop() for pop(0): the newest event is returned
next_newest(p) ==
    IF p.toyield = <<>>
    THEN [p |-> Raise(p, "StopIteration"), ret |-> <<>>]
    ELSE [p |-> [p EXCEPT !.toyield = Front(@)], ret |-> <<Last(p.toyield)>>]

\* __next__: [p, ret]; StopIteration when the queue is empty
next(p) ==
    IF p.toyield = <<>>
    THEN [p |-> Raise(p, "StopIteration"), ret |-> <<>>]
    ELSE [p |-> [p EXCEPT !.toyield = Tail(@)], ret |-> <<Head(p.toyield)>>]

(***************************************************************************)
(* Input texts.  A document is a text built from a tree of containers and  *)
(* scalars, kept together with its leaves: the canonical dot-path of each  *)
(* scalar (object keys and 0-based array positions of the enclosing        *)
(* containers) and the value the scalar's JSON text decodes to.            *)
(***************************************************************************)

\* Texts of at most MaxLen characters over Alphabet are all fed.
MaxLen == 3

\* feed_string is called with chunks of at most MaxChunk characters.
MaxChunk == 3

Alphabet == {"{", "}", "[", "]", "\"", ":", ",", "\\", " ", "1", "t", "a"}

ShortTexts == UNION {[1..n -> Alphabet] : n \in 0..MaxLen}

Leaf(path, value, atomic) == [path |-> path, value |-> value, atomic |-> atomic]

\* A scalar whose JSON text is raw and whose decoded value is value
Scalar(raw, value) ==
    [text |-> Chars(raw), leaves |-> <<Leaf(<<>>, value, value.t # "str")>>]

\* A document with whitespace around it
Pad(d) == [d EXCEPT !.text = <<" ">> \o @ \o <<" ">>]

Under(seg, leaf) ==
    [leaf EXCEPT !.path = IF @ = <<>> THEN seg ELSE seg \o <<".">> \o @]

RECURSIVE ArrBody(_, _)
ArrBody(items, i) ==
    IF i > Len(items) THEN [text |-> <<>>, leaves |-> <<>>]
    ELSE LET rest == ArrBody(items, i + 1)
             here == items[i]
         IN [text |-> here.text \o (IF i < Len(items) THEN <<",">> ELSE <<>>) \o rest.text,
             leaves |-> [k \in 1..Len(here.leaves) |-> Under(IntToStr(i - 1), here.leaves[k])]
                        \o rest.leaves]

\* The array of the documents items
Arr(items) ==
    LET b == ArrBody(items, 1) IN
    [text |-> <<"[">> \o b.text \o <<"]">>, leaves |-> b.leaves]

RECURSIVE ObjBody(_, _, _)
ObjBody(keys, items, i) ==
    IF i > Len(items) THEN [text |-> <<>>, leaves |-> <<>>]
    ELSE LET rest == ObjBody(keys, items, i + 1)
             here == items[i]
             key == Chars(keys[i])
         IN [text |-> <<"\"">> \o key \o <<"\"", ":">> \o here.text
                      \o (IF i < Len(items) THEN <<",">> ELSE <<>>) \o rest.text,
             leaves |-> [k \in 1..Len(here.leaves) |-> Under(key, here.leaves[k])]
                        \o rest.leaves]

\* The object with the plain keys keys[i] and the documents items[i]
Obj(keys, items) ==
    LET b == ObjBody(keys, items, 1) IN
    [text |-> <<"{">> \o b.text \o <<"}">>, leaves |-> b.leaves]

One == Scalar("1", PyInt(1))

Two == Scalar("2", PyInt(2))

StrX == Scalar("\"x\"", PyStr(<<"x">>))

Atoms == {One, Scalar("20", PyInt(20)), Scalar("true", PyBool(TRUE)),
          Scalar("false", PyBool(FALSE)), Scalar("null", PyNone)}

\* Strings: plain, each JSON escape, \uXXXX, a surrogate pair
Strings ==
    {StrX,
     Scalar("\"\"", PyStr(<<>>)),
     Scalar("\"ab\"", PyStr(<<"a", "b">>)),
     Scalar("\"\\n\"", PyStr(<<"\n">>)),
     Scalar("\"\\t\"", PyStr(<<"\t">>)),
     Scalar("\"\\r\"", PyStr(<<"\r">>)),
     Scalar("\"\\\\\"", PyStr(<<"\\">>)),
     Scalar("\"\\\"\"", PyStr(<<"\"">>)),
     Scalar("\"\\/\"", PyStr(<<"/">>)),
     Scalar("\"\\b\"", PyStr(<<Chr(8)>>)),
     Scalar("\"\\f\"", PyStr(<<"\f">>)),
     Scalar("\"a\\nb\"", PyStr(<<"a", "\n", "b">>)),
     Scalar("\"\\u0041\"", PyStr(<<"A">>)),
     Scalar("\"\\u00e9\"", PyStr(<<Chr(233)>>)),
     Scalar("\"\\ud83d\\ude00\"", PyStr(<<Chr(128512)>>))}

Few == {One, StrX}

\* One container around scalars
Flat(S) ==
    {Arr(<<a>>) : a \in S}
    \cup {Arr(<<a, b>>) : a \in S, b \in S}
    \cup {Obj(<<"a">>, <<a>>) : a \in S}
    \cup {Obj(<<"a", "b">>, <<a, b>>) : a \in S, b \in S}

\* A container in a container: objects in arrays, arrays in arrays, arrays
\* in objects, objects in objects, before and after a scalar sibling
Nested(F) ==
    {Arr(<<f>>) : f \in F}
    \cup {Arr(<<One, f>>) : f \in F}
    \cup {Arr(<<f, Two>>) : f \in F}
    \cup {Obj(<<"a">>, <<f>>) : f \in F}
    \cup {Obj(<<"a", "b">>, <<One, f>>) : f \in F}
    \cup {Obj(<<"a", "b">>, <<f, Two>>) : f \in F}

\* {"a":[1,{"b":2}]} and {"name":"x","age":1,"pref":["a","b"]}
Examples ==
    {Obj(<<"a">>, <<Arr(<<One, Obj(<<"b">>, <<Two>>)>>)>>),
     Obj(<<"name", "age", "pref">>,
         <<StrX, One, Arr(<<Scalar("\"a\"", PyStr(<<"a">>)), Scalar("\"b\"", PyStr(<<"b">>))>>)>>),
     Arr(<<Arr(<<Arr(<<One>>)>>)>>),
     Obj(<<"a">>, <<Obj(<<"b">>, <<Obj(<<"c">>, <<One>>)>>)>>)}

\* Atomic literals with whitespace around them, before a comma and before
\* the closing bracket
Spaced ==
    {Arr(<<Pad(a)>>) : a \in Atoms}
    \cup {Pad(Arr(<<Pad(a), Pad(One)>>)) : a \in Atoms}
    \cup {Obj(<<"a">>, <<Pad(a)>>) : a \in Atoms}
    \cup {Obj(<<"a", "b">>, <<Pad(a), Pad(Two)>>) : a \in Atoms}

\* Well-formed texts with a container that holds nothing
Hollow ==
    {Arr(<<>>), Obj(<<>>, <<>>), Arr(<<Arr(<<>>)>>), Arr(<<Obj(<<>>, <<>>)>>),
     Obj(<<"a">>, <<Arr(<<>>)>>), Obj(<<"a">>, <<Obj(<<>>, <<>>)>>),
     Arr(<<Arr(<<>>), Two>>), Arr(<<One, Obj(<<>>, <<>>)>>)}

Documents ==
    Flat(Few \cup Atoms) \cup Nested(Flat(Few)) \cup Examples \cup Spaced
    \cup {Arr(<<s>>) : s \in Strings} \cup {Obj(<<"a">>, <<s>>) : s \in Strings}
    \cup {Arr(<<s, StrX>>) : s \in Strings}

\* Texts that are no JSON, or JSON the parser does not take
Malformed ==
    {Chars(t) : t \in {"[t,rue,1]", "[tt,1]", "[01]", "[-1]", "[1.5]", "[1e2]",
                       "{\"\\q\":1}", "[\"\\q\"]", "[\"\\x41\"]", "{\"a\":1]", "[1}",
                       "{\"a\":}", "{\"a\"1}", "[1,]", "[[]]x", "[\"\\UFFFFFFFF\"]",
                       "[\"\\u12\"]", "[\"\\xg\"]", "[1]]]"}}

\* Objects with one field whose key is the text of a container marker:
\* {"{":1}, {"[":1}, {"{":"x"}, {"[":"x"}
MarkerKeyed ==
    {Chars(t) : t \in {"{\"{\":1}", "{\"[\":1}", "{\"{\":\"x\"}", "{\"[\":\"x\"}"}}

\* {"a.b":1,"a":{"b":2}}: a key with a dot beside a nested object
Dotted == Chars("{\"a.b\":1,\"a\":{\"b\":2}}")

\* A string value with an escape that cannot complete, in an array in an array
StalledNested == Chars("[[\"\\xg\"]]")

Texts ==
    ShortTexts \cup {d.text : d \in Documents \cup Hollow} \cup Malformed
    \cup MarkerKeyed \cup {Dotted, StalledNested}

IsDocument(t) == \E d \in Documents : d.text = t

\* The leaves of the document whose text is t
Leaves(t) == (CHOOSE d \in Documents : d.text = t).leaves

(***************************************************************************)
(* The state: one StreamJsonParser and the caller that feeds it one text   *)
(***************************************************************************)

VARIABLES
    state, stack, toyield, payload, payload_string_parser, started,
        \* the fields of the StreamJsonParser
    exc,        \* the exception the last call raised, "None" when it returned
    call,       \* the last call: "__init__", "feed_char", "feed_string", "__next__"
    arg,        \* the str the last feed_char or feed_string was given
    ret,        \* <<event>> when the last call was a __next__ that returned event
    pre,        \* the parser as it was when the last call began
    text,       \* the text the caller feeds, a piece at a time
    nfed,       \* how many characters of text the caller has passed so far
    emitted,    \* every event appended to toyield so far, in order
    drained,    \* every event __next__ has returned so far, in order
    exhausted,  \* some __next__ has raised StopIteration
    was_nonempty, \* the stack has been non-empty after some feed_char
    oneshot     \* the parser a single feed_string(text[:nfed]) leaves

parser_vars == <<state, stack, toyield, payload, payload_string_parser, started>>

vars == <<state, stack, toyield, payload, payload_string_parser, started, exc, call,
          arg, ret, pre, text, nfed, emitted, drained, exhausted, was_nonempty,
          oneshot>>

\* The parser object, ready for its next call
Parser ==
    [state |-> state, stack |-> stack, toyield |-> toyield, payload |-> payload,
     payload_string_parser |-> payload_string_parser, started |-> started,
     exc |-> "None"]

Init ==
    /\ text \in Texts
    /\ nfed = 0
    /\ state = NewParser.state
    /\ stack = NewParser.stack
    /\ toyield = NewParser.toyield
    /\ payload = NewParser.payload
    /\ payload_string_parser = NewParser.payload_string_parser
    /\ started = NewParser.started
    /\ exc = "None"
    /\ call = "__init__"
    /\ arg = <<>>
    /\ ret = <<>>
    /\ pre = NewParser
    /\ emitted = <<>>
    /\ drained = <<>>
    /\ exhausted = FALSE
    /\ was_nonempty = FALSE
    /\ oneshot = NewParser

\* The parser's fields after a call that left it as q
Becomes(q) ==
    /\ state' = q.state
    /\ stack' = q.stack
    /\ toyield' = q.toyield
    /\ payload' = q.payload
    /\ payload_string_parser' = q.payload_string_parser
    /\ started' = q.started
    /\ exc' = q.exc
    /\ pre' = Parser

RECURSIVE SeenNonEmpty(_, _)
\* During feed_string(p, s) the stack is non-empty after some feed_char
SeenNonEmpty(p, s) ==
    IF s = <<>> THEN FALSE
    ELSE LET q == feed_char(p, Head(s)) IN
         \/ q.stack # <<>>
         \/ (q.exc = "None" /\ SeenNonEmpty(q, Tail(s)))

\* What a call that fed s and left the parser as q does to the caller's record
Fed(s, q) ==
    /\ arg' = s
    /\ ret' = <<>>
    /\ nfed' = nfed + Len(s)
    /\ emitted' = emitted \o SubSeq(q.toyield, Len(toyield) + 1, Len(q.toyield))
    /\ was_nonempty' = (was_nonempty \/ SeenNonEmpty(Parser, s))
    /\ oneshot' = IF oneshot.exc # "None" THEN oneshot ELSE feed_string(oneshot, s)
    /\ UNCHANGED <<text, drained, exhausted>>

\* parser.feed_char(c), c the next character of the text
FeedChar ==
    /\ nfed < Len(text)
    /\ \E q \in {feed_char(Parser, text[nfed + 1])} :
          /\ call' = "feed_char"
          /\ Becomes(q)
          /\ Fed(<<text[nfed + 1]>>, q)

\* parser.feed_string(s), s the next n characters of the text
FeedString(n) ==
    /\ nfed + n <= Len(text)
    /\ \E q \in {feed_string(Parser, SubSeq(text, nfed + 1, nfed + n))} :
          /\ call' = "feed_string"
          /\ Becomes(q)
          /\ Fed(SubSeq(text, nfed + 1, nfed + n), q)

\* next(parser)
Drain ==
    \E r \in {next(Parser)} :
       /\ call' = "__next__"
       /\ arg' = <<>>
       /\ Becomes(r.p)
       /\ ret' = r.ret
       /\ drained' = drained \o r.ret
       /\ exhausted' = (exhausted \/ r.p.exc = "StopIteration")
       /\ UNCHANGED <<text, nfed, emitted, was_nonempty, oneshot>>

Next ==
    \/ FeedChar
    \/ \E n \in 0..MaxChunk : FeedString(n)
    \/ Drain

\* A caller that feeds in pieces of any size and drains at any time
Spec == Init /\ [][Next]_vars

NextChars ==
    \/ FeedChar
    \/ Drain

\* A caller that feeds the text one character at a time with feed_char
SpecChars == Init /\ [][NextChars]_vars

(***************************************************************************)
(* Properties                                                              *)
(***************************************************************************)

IsFeed == call \in {"feed_char", "feed_string"}

\* The Value events among events, in order
ValuesOf(events) == SelectSeq(events, LAMBDA e : e.type = "Value")

\* The event a leaf of a document is to be reported as
LeafEvent(leaf) == Value(leaf.path, leaf.value)

ExpectedValues(t) == [i \in 1..Len(Leaves(t)) |-> LeafEvent(Leaves(t)[i])]

\* C1: a well-formed document of nested objects and arrays with scalar
\* leaves, fed with feed_char, raises no error, and once it is fed whole the
\* Value events are exactly one per scalar leaf, in document order, each
\* with the canonical dot-path of its leaf.
C1_CanonicalPaths ==
    IsDocument(text) =>
        /\ (call = "feed_char" => exc = "None")
        /\ (nfed = Len(text) => ValuesOf(emitted) = ExpectedValues(text))

\* C2: the k-th scalar element of an array is emitted with last path
\* segment k: the i-th Value event of a document carries the path of the
\* document's i-th leaf, array positions counted from 0.
C2_ArrayIndexCounts ==
    IsDocument(text) =>
        \A i \in 1..Len(ValuesOf(emitted)) :
            /\ i <= Len(Leaves(text))
            /\ ValuesOf(emitted)[i].index_key = Leaves(text)[i].path

\* The place in events of the last Value event before place i, 0 if none
PreviousValue(events, i) ==
    LET before == {j \in 1..(i - 1) : events[j].type = "Value"} IN
    IF before = {} THEN 0 ELSE CHOOSE j \in before : \A k \in before : k <= j

RECURSIVE ConcatChars(_, _, _)
\* The chars of the ValuePiece events at places from..to of events, joined
ConcatChars(events, from, to) ==
    IF from > to THEN <<>>
    ELSE (IF events[from].type = "ValuePiece" THEN events[from].char ELSE <<>>)
         \o ConcatChars(events, from + 1, to)

\* C3: for every string value, the chars of the ValuePiece events emitted
\* for it, joined in emission order, are the value of its final Value event,
\* and they carry its path.
C3_PiecesSpellValue ==
    \A i \in 1..Len(emitted) :
        (emitted[i].type = "Value" /\ emitted[i].value.t = "str") =>
            /\ ConcatChars(emitted, PreviousValue(emitted, i) + 1, i - 1) = emitted[i].value.v
            /\ \A j \in (PreviousValue(emitted, i) + 1)..(i - 1) :
                   emitted[j].index_key = emitted[i].index_key

\* C4: however the text is split into the chunks passed to feed_string, and
\* whenever the queue is drained, once the whole text is passed the events
\* delivered, the state and the stack are those a single feed_string(text)
\* gives.
C4_ChunkingIsInvisible ==
    nfed = Len(text) =>
        /\ drained \o toyield = oneshot.toyield
        /\ state = oneshot.state
        /\ stack = oneshot.stack

\* C5: a closing bracket fed with an empty stack raises and leaves the state
\* INVALID; a feed in state INVALID raises and changes neither state, stack,
\* payload nor queue; the events queued before are still drained in order.
C5_InvalidIsTerminal ==
    /\ (call = "feed_char" /\ pre.stack = <<>> /\ arg \in {<<"]">>, <<"}">>})
           => (exc # "None" /\ state = INVALID)
    /\ (IsFeed /\ arg # <<>> /\ pre.state = INVALID)
           => /\ exc # "None"
              /\ state = INVALID
              /\ stack = pre.stack
              /\ payload = pre.payload
              /\ toyield = pre.toyield
    /\ (call = "__next__" /\ pre.state = INVALID /\ pre.toyield # <<>>)
           => /\ ret = <<Head(pre.toyield)>>
              /\ toyield = Tail(pre.toyield)
              /\ state = INVALID

\* C5 witness: events were queued, a closing bracket on the empty stack made
\* the parser INVALID, and one more closing bracket has been refused.
C5_Witness ==
    /\ call = "feed_char"
    /\ arg = <<"]">>
    /\ pre.state = INVALID
    /\ pre.stack = <<>>
    /\ exc = "RuntimeError"
    /\ toyield # <<>>

\* C6: whenever a feed call raises, the state after it is INVALID.
C6_RaiseMeansInvalid == (IsFeed /\ exc # "None") => state = INVALID

\* C7: __next__ returns and removes the oldest queued event, or raises
\* StopIteration on an empty queue and changes nothing; a feed call only
\* appends to the queue; so the events emitted are the events drained
\* followed by the events still queued.
C7_QueueIsFifo ==
    /\ emitted = drained \o toyield
    /\ (call = "__next__" /\ pre.toyield = <<>>)
           => (exc = "StopIteration" /\ ret = <<>> /\ toyield = <<>>)
    /\ (call = "__next__" /\ pre.toyield # <<>>)
           => (exc = "None" /\ ret = <<Head(pre.toyield)>> /\ toyield = Tail(pre.toyield))
    /\ call = "__next__"
           => (state = pre.state /\ stack = pre.stack /\ payload = pre.payload)
    /\ IsFeed
           => /\ Len(toyield) >= Len(pre.toyield)
              /\ SubSeq(toyield, 1, Len(pre.toyield)) = pre.toyield

\* C7 witness: after a __next__ on the empty queue raised StopIteration,
\* later feeds queued events, and two of them have been drained in turn
\* while a later one stays queued and the text is not yet fed whole.
C7_Witness ==
    /\ exhausted
    /\ call = "__next__"
    /\ ret # <<>>
    /\ Len(drained) >= 2
    /\ toyield # <<>>
    /\ nfed < Len(text)

\* C8: is_current_data_finished() is true exactly when the stack is empty
\* and has been non-empty before.
C8_FinishedIffClosed ==
    is_current_data_finished(Parser) <=> (stack = <<>> /\ was_nonempty)

\* The values of the atomic leaves of the document whose text is t
AtomicLeafValues(t) ==
    LET atoms == SelectSeq(Leaves(t), LAMBDA l : l.atomic) IN
    [i \in 1..Len(atoms) |-> atoms[i].value]

\* The values of the Value events that are no str
AtomicValuesOf(events) ==
    LET atoms == SelectSeq(events, LAMBDA e : e.type = "Value" /\ e.value.t # "str") IN
    [i \in 1..Len(atoms) |-> atoms[i].value]

\* C9: once a document is fed whole, each atomic literal in it, whatever
\* whitespace surrounds it and whether a comma or a closing bracket follows
\* it, has given exactly one Value event, whose value is its JSON decode.
C9_AtomicValues ==
    (IsDocument(text) /\ nfed = Len(text)) =>
        AtomicValuesOf(emitted) = AtomicLeafValues(text)

\* The stack alternates, from the bottom: a container marker, then the key
\* (a str, after "{") or the index (an int, after "[") pending in it.
StackShape(st) ==
    \A i \in 1..Len(st) :
        IF i % 2 = 1
        THEN EqStr(st[i], <<"{">>) \/ EqStr(st[i], <<"[">>)
        ELSE IF EqStr(st[i - 1], <<"{">>) THEN IsStr(st[i]) ELSE IsInt(st[i])

\* C10: after every feed call that did not raise, the stack alternates
\* container marker, then key or index.
C10_StackAlternates == (IsFeed /\ exc = "None") => StackShape(stack)

IsMarker(x) == EqStr(x, <<"{">>) \/ EqStr(x, <<"[">>)

\* The stack a closing bracket is to leave: the marker on top is popped,
\* and the key or index beneath it, if one lies there
ClosedStack(st) ==
    LET popped == Front(st) IN
    IF popped # <<>> /\ ~IsMarker(Last(popped)) THEN Front(popped) ELSE popped

\* C11: in state OUTSIDE a closing bracket is accepted exactly when the top
\* of the stack is the matching open marker; it then pops the marker and the
\* key or index slot beneath it, leaving an empty stack or the enclosing
\* marker on top; otherwise the call raises RuntimeError and the state
\* becomes INVALID.
C11_ClosingBracket ==
    (call = "feed_char" /\ pre.state = OUTSIDE /\ arg \in {<<"]">>, <<"}">>}) =>
        IF pre.stack # <<>> /\ EqStr(Last(pre.stack), PAIRS[arg[1]])
        THEN /\ exc = "None"
             /\ state = OUTSIDE
             /\ stack = ClosedStack(pre.stack)
             /\ (stack = <<>> \/ IsMarker(Last(stack)))
        ELSE exc = "RuntimeError" /\ state = INVALID

\* The parser once the literal in its payload is completed: the Value is
\* queued with the path of the stack as it is, the slot is popped, and the
\* state is OUTSIDE
Completed(p) ==
    [p EXCEPT !.payload = <<>>,
              !.toyield = Append(@, Value(calculate_current_index_key(p.stack).key,
                                          json_loads(p.payload).value)),
              !.stack = Front(@),
              !.state = OUTSIDE]

\* C12: in state ATOMIC_VALUE an atomic character emits nothing; the first
\* other character c ends the literal in that one call: the Value is queued
\* with the path computed before the slot is popped, and state, stack and
\* queue are those of feeding c in state OUTSIDE after that; if c is
\* refused there, the call raises with the Value queued and state INVALID.
C12_LiteralEnds ==
    (call = "feed_char" /\ pre.state = ATOMIC_VALUE) =>
        IF is_atomic_value_char(arg[1])
        THEN toyield = pre.toyield
        ELSE json_loads(pre.payload).exc = "None" =>
                LET after == feed_char_outside(Completed(pre), arg[1]) IN
                /\ state = after.state
                /\ stack = after.stack
                /\ toyield = after.toyield
                /\ Len(toyield) > Len(pre.toyield)
                /\ toyield[Len(pre.toyield) + 1] = Last(Completed(pre).toyield)
                /\ exc # "None" => state = INVALID

\* The events the last feed call appended to the queue
NewEvents == SubSeq(toyield, Len(pre.toyield) + 1, Len(toyield))

IsPiece(e) == e.type = "ValuePiece"

IsStrValue(e) == e.type = "Value" /\ e.value.t = "str"

Ignored ==
    /\ exc = "None"
    /\ state = OUTSIDE
    /\ stack = pre.stack
    /\ payload = pre.payload
    /\ toyield = pre.toyield

Refused == exc = "RuntimeError" /\ state = INVALID

\* C14: in state OUTSIDE a comma is ignored exactly when the top of the
\* stack is an open container marker, and a colon exactly when the top is a
\* pending key with the object marker beneath it; any other comma or colon
\* raises and leaves the state INVALID.  (Texts whose keys spell a marker
\* are left to C15: in the others a "{" or "[" on the stack is a marker.)
C14_CommaAndColon ==
    (call = "feed_char" /\ pre.state = OUTSIDE /\ text \notin MarkerKeyed) =>
        /\ arg = <<",">> =>
               IF pre.stack # <<>> /\ IsMarker(Last(pre.stack))
               THEN Ignored ELSE Refused
        /\ arg = <<":">> =>
               IF /\ Len(pre.stack) >= 2
                  /\ IsStr(Last(pre.stack))
                  /\ ~IsMarker(Last(pre.stack))
                  /\ EqStr(pre.stack[Len(pre.stack) - 1], <<"{">>)
               THEN Ignored ELSE Refused

\* C15: in an object whose one field has the key "{" or "[", the key is
\* read once (characters 2 to 4), no call raises, the scalar value is parsed
\* without an array index being pushed, completing it pops the key and
\* leaves the object marker alone on the stack, and the closing } is
\* accepted: the whole text leaves one Value, an empty stack and state
\* OUTSIDE.
C15_KeyIsNoMarker ==
    text \in MarkerKeyed =>
        /\ IsFeed => exc = "None"
        /\ \A i \in 1..Len(stack) : ~IsInt(stack[i])
        /\ state = KEY => nfed < 4
        /\ (ValuesOf(emitted) # <<>> /\ nfed < Len(text)) => stack = <<PyStr(<<"{">>)>>
        /\ nfed = Len(text) =>
               /\ stack = <<>>
               /\ state = OUTSIDE
               /\ Len(ValuesOf(emitted)) = 1

\* How many hex digits the escape letter c takes in ESCAPED
HexWidth(c) == IF c = "x" THEN 2 ELSE IF c = "u" THEN 4 ELSE 8

\* remains starts with a backslash, then x, u or U, and one of the
\* characters where that escape's hex digits belong is no hex digit
Stalled(remains) ==
    /\ Len(remains) >= 3
    /\ remains[1] = "\\"
    /\ remains[2] \in {"x", "u", "U"}
    /\ \E i \in 3..Len(remains) : i <= 2 + HexWidth(remains[2]) /\ ~IsHex(remains[i])

\* C16: once the decoder's buffer holds an x, u or U escape that cannot
\* complete, every further feed_char returns without raising, leaves the
\* state STRING_VALUE, the stack and the queue as they were, and the buffer
\* still holds that escape.
C16_StalledForever ==
    (/\ call = "feed_char"
     /\ pre.state = STRING_VALUE
     /\ Stalled(pre.payload_string_parser.remains)) =>
        /\ exc = "None"
        /\ state = STRING_VALUE
        /\ stack = pre.stack
        /\ toyield = pre.toyield
        /\ Stalled(payload_string_parser.remains)

\* C17: in state OUTSIDE the payload is empty, no decoder is held and the
\* top of the stack is no int; the payload is non-empty only in states KEY,
\* ATOMIC_VALUE and STRING_VALUE, where it is non-empty and starts with the
\* first character of the value being assembled: a double quote for a key
\* or a string, an atomic character for a literal, and after a feed_char
\* that returned it is either that one character or the payload before
\* with the character appended.
C17_PayloadAndState ==
    /\ state = OUTSIDE =>
           /\ payload = <<>>
           /\ payload_string_parser = NoStringParser
           /\ (stack = <<>> \/ ~IsInt(Last(stack)))
    /\ payload # <<>> => state \in {KEY, ATOMIC_VALUE, STRING_VALUE}
    /\ state \in {KEY, STRING_VALUE} => (payload # <<>> /\ payload[1] = "\"")
    /\ state = ATOMIC_VALUE => (payload # <<>> /\ is_atomic_value_char(payload[1]))
    /\ (call = "feed_char" /\ exc = "None" /\ state \in {KEY, ATOMIC_VALUE, STRING_VALUE}) =>
           \/ payload = arg
           \/ (state = pre.state /\ payload = pre.payload \o arg)

\* C17 witness: inside an object, a key and then a string value of several
\* characters have been completed, and the closing quote of the string has
\* just brought the state back to OUTSIDE from a parser that held a decoder.
C17_Witness ==
    /\ call = "feed_char"
    /\ pre.state = STRING_VALUE
    /\ ~pre.payload_string_parser.is_none
    /\ Len(pre.payload) >= 3
    /\ state = OUTSIDE
    /\ Len(stack) = 1
    /\ EqStr(stack[1], <<"{">>)
    /\ toyield # <<>>

\* Texts of nested objects only, the keys of each object pairwise distinct
NestedObjects ==
    {Dotted} \cup {d.text : d \in {x \in Documents : \A i \in 1..Len(x.text) : x.text[i] # "["}}

\* C18: in a document made of nested objects only, with distinct keys in
\* each object, no two Value events carry the same path.
C18_PathsAreUnambiguous ==
    text \in NestedObjects =>
        \A i, j \in 1..Len(ValuesOf(emitted)) :
            i # j => ValuesOf(emitted)[i].index_key # ValuesOf(emitted)[j].index_key

====
